---- MODULE Spec2Model ----
(***************************************************************************)
(* A model of repomd.py: load() with its mirror fallback, Repo.find /      *)
(* Repo.findall, and the Package accessors.                                 *)
(*                                                                         *)
(* Text is modelled as TLA+ strings where the program only compares or     *)
(* concatenates it, and as sequences of one-character strings where the    *)
(* program (or the library routine it hands the text to) looks inside it.  *)
(***************************************************************************)
EXTENDS Integers, Sequences, FiniteSets, TLC

VARIABLES
    pc,          \* position of load(): start, mirrorlist, mirrorloop, mirrors,
                 \* afterloop, primary, catalog, done, raised
    baseurl,     \* load's argument
    base,        \* local `base` of load (a ParseResult)
    path,        \* local `path` of load (a PurePosixPath)
    repomd_xml,  \* local `repomd_xml` of load: NoneXml or a parsed index
    handling,    \* the exception the `except NotRepoException` block handles
    swallowed,   \* the exception most recently caught and dropped
    mirrors,     \* local `mirrors` of load
    idx,         \* position of `for mirror in mirrors` (1-based)
    primary_url, \* local `primary_url` of load
    exc,         \* the exception load() raised, else NoException
    returned,    \* the Repo load() returned, else NoRepo
    fetches,     \* every urlopen() call so far, in order
    ml_result,   \* local `result` of _load_mirrorlist: the lines of the list
    served,      \* index of the candidate whose index was obtained (0: direct)
    metadata,    \* Repo._metadata: the package elements of the catalog, in order
    found,       \* the last Repo.find / Repo.findall call and what it gave
    element,     \* Package._element
    got          \* the last Package property read and what it gave

loadVars == <<pc, baseurl, base, path, repomd_xml, handling, swallowed, mirrors,
              idx, primary_url, exc, returned, fetches, ml_result, served>>

repoVars == <<metadata, found>>
pkgVars == <<element, got>>

vars == <<loadVars, repoVars, pkgVars>>

-----------------------------------------------------------------------------
(* Bounds *)

\* longest mirror list, in lines
MaxLines == 3

\* most package elements in a catalog
MaxPackages == 3

-----------------------------------------------------------------------------
(* urllib.parse and pathlib, on the URLs the model uses *)

\* urllib.parse.urlparse: the scheme is lower-cased, the netloc and path are
\* kept as written, an unbalanced "[" in the netloc raises ValueError.
Urlparse(s) ==
    CASE s = "http://o/r?k=1" -> [ok |-> TRUE, scheme |-> "http", netloc |-> "o", path |-> "/r", query |-> "k=1"]
      [] s = "http://o"       -> [ok |-> TRUE, scheme |-> "http", netloc |-> "o", path |-> "", query |-> ""]
      [] s = "http://a/r"     -> [ok |-> TRUE, scheme |-> "http", netloc |-> "a", path |-> "/r", query |-> ""]
      [] s = "https://b"      -> [ok |-> TRUE, scheme |-> "https", netloc |-> "b", path |-> "", query |-> ""]
      [] s = "HTTP://C/r/"    -> [ok |-> TRUE, scheme |-> "http", netloc |-> "C", path |-> "/r/", query |-> ""]
      [] s = "http://C/r/"    -> [ok |-> TRUE, scheme |-> "http", netloc |-> "C", path |-> "/r/", query |-> ""]
      [] s = "ftp://a/r"      -> [ok |-> TRUE, scheme |-> "ftp", netloc |-> "a", path |-> "/r", query |-> ""]
      [] s = "//a/r"          -> [ok |-> TRUE, scheme |-> "", netloc |-> "a", path |-> "/r", query |-> ""]
      [] s = "http:///r"      -> [ok |-> TRUE, scheme |-> "http", netloc |-> "", path |-> "/r", query |-> ""]
      [] s = "http://[bad"    -> [ok |-> FALSE, scheme |-> "", netloc |-> "", path |-> "", query |-> ""]
      [] OTHER                -> [ok |-> TRUE, scheme |-> "", netloc |-> "", path |-> s, query |-> ""]

\* pathlib.PurePosixPath(text): the segments, without empty ones, so that a
\* trailing "/" is dropped and "" is the relative path "."
PurePosixPath(s) ==
    CASE s = ""                  -> [abs |-> FALSE, segs |-> <<>>]
      [] s = "/r"                -> [abs |-> TRUE, segs |-> <<"r">>]
      [] s = "/r/"               -> [abs |-> TRUE, segs |-> <<"r">>]
      [] s = "repodata/p.xml.gz" -> [abs |-> FALSE, segs |-> <<"repodata", "p.xml.gz">>]
      [] s = "/abs/p.xml.gz"     -> [abs |-> TRUE, segs |-> <<"abs", "p.xml.gz">>]
      [] OTHER                   -> [abs |-> FALSE, segs |-> <<s>>]

\* PurePosixPath.__truediv__: an absolute right operand replaces the left one
PathJoin(p, q) ==
    IF q.abs THEN q ELSE [abs |-> p.abs, segs |-> p.segs \o q.segs]

RECURSIVE JoinSegs(_)
JoinSegs(segs) ==
    IF segs = <<>> THEN ""
    ELSE IF Len(segs) = 1 THEN segs[1]
    ELSE segs[1] \o "/" \o JoinSegs(Tail(segs))

\* str(PurePosixPath)
PathStr(p) ==
    IF p.segs = <<>> THEN (IF p.abs THEN "/" ELSE ".")
    ELSE (IF p.abs THEN "/" ELSE "") \o JoinSegs(p.segs)

\* urllib.parse.urlunsplit, for a URL with a netloc: "/" is put before a
\* path that does not start with one
Urlunsplit(scheme, netloc, pathText, pathAbs, query) ==
    LET p  == IF pathText # "" /\ ~pathAbs THEN "/" \o pathText ELSE pathText
        u1 == IF netloc # "" THEN "//" \o netloc \o p ELSE pathText
        u2 == IF scheme # "" THEN scheme \o ":" \o u1 ELSE u1
    IN  IF query # "" THEN u2 \o "?" \o query ELSE u2

\* ParseResult.geturl() of what urlparse() returned
Geturl(u) == Urlunsplit(u.scheme, u.netloc, u.path, PurePosixPath(u.path).abs, u.query)

\* base._replace(path=str(p)).geturl()
ReplacePathGeturl(b, p) == Urlunsplit(b.scheme, b.netloc, PathStr(p), p.abs, b.query)

\* _parse_baseurl
ParseBaseurl(url) ==
    LET b == Urlparse(url) IN [base |-> b, path |-> PurePosixPath(b.path)]

\* repomd_url of _load_repomd
RepomdUrl(b, p) ==
    ReplacePathGeturl(b, PathJoin(PathJoin(p, [abs |-> FALSE, segs |-> <<"repodata">>]),
                                  [abs |-> FALSE, segs |-> <<"repomd.xml">>]))

-----------------------------------------------------------------------------
(* Exceptions, documents, the network *)

NoException == [type |-> "None", url |-> "", at |-> 0]

\* at: the number of the urlopen() call that raised it (tells two exceptions
\* with the same text apart)
Exc(type, url, at) == [type |-> type, url |-> url, at |-> at]

NoneXml == [none |-> TRUE, data |-> <<>>]
NoRepo == [baseurl |-> "", metadata |-> "None"]

\* what a primary `location` can look like under a `data` element
NOLOC == "<no location element>"
NOHREF == "<location without href>"

\* repomd.xml documents: the `data` children in document order
Indexes ==
    { <<>>,
      << [type |-> "other", loc |-> "repodata/p.xml.gz"] >>,
      << [type |-> "primary", loc |-> "repodata/p.xml.gz"] >>,
      << [type |-> "other", loc |-> "repodata/p.xml.gz"],
         [type |-> "primary", loc |-> "/abs/p.xml.gz"] >>,
      << [type |-> "primary", loc |-> NOLOC],
         [type |-> "primary", loc |-> "repodata/p.xml.gz"] >>,
      << [type |-> "primary", loc |-> NOLOC] >>,
      << [type |-> "primary", loc |-> NOHREF] >> }

\* what urlopen() + ET.fromstring() of an index can do
IndexFailures == {"HTTP404", "HTTP500", "URLError", "ParseError"}
IndexOutcomes ==
    [kind : {"ok"}, doc : Indexes] \cup [kind : IndexFailures, doc : {<<>>}]

BaseUrls == {"http://o/r?k=1", "http://o"}

\* lines a mirror list can hold
Lines == {"http://a/r", "https://b", "HTTP://C/r/", "ftp://a/r", "//a/r",
          "http:///r", "http://[bad", ""}

RECURSIVE SeqsUpTo(_, _)
SeqsUpTo(S, n) ==
    IF n = 0 THEN {<<>>}
    ELSE LET shorter == SeqsUpTo(S, n - 1)
         IN  shorter \cup {Append(s, x) : s \in {t \in shorter : Len(t) = n - 1}, x \in S}

Bodies == SeqsUpTo(Lines, MaxLines)

\* what urlopen() + read().decode() of the mirror list can do
MirrorlistFailures == {"HTTP404", "HTTP500", "URLError", "UnicodeDecodeError"}
MirrorlistOutcomes ==
    [kind : {"ok"}, lines : Bodies] \cup [kind : MirrorlistFailures, lines : {<<>>}]

CatalogOutcomes == {"ok", "HTTP404", "URLError", "BadGzipFile"}

Fetch(what, url, kind, cand) == [what |-> what, url |-> url, kind |-> kind, cand |-> cand]

-----------------------------------------------------------------------------
(* _load_mirrorlist *)

\* the loop of _load_mirrorlist; the try statement is around the loop, so a
\* ValueError of urlparse ends the loop and the mirrors found so far are kept
RECURSIVE MirrorLoop(_, _)
MirrorLoop(lines, acc) ==
    IF lines = <<>> THEN acc
    ELSE LET u == Urlparse(Head(lines))
         IN  IF ~u.ok THEN acc
             ELSE IF u.scheme \in {"http", "https"} /\ u.netloc # ""
                  THEN MirrorLoop(Tail(lines), Append(acc, Geturl(u)))
                  ELSE MirrorLoop(Tail(lines), acc)

-----------------------------------------------------------------------------
(* _load_repomd *)

\* a variant of LoadRepomdExc without the test of e.code: every HTTPError
\* becomes NotRepoException
LoadRepomdExcAnyStatus(kind, url, at) ==
    IF kind \in {"HTTP404", "HTTP500"} THEN Exc("NotRepoException", url, at)
    ELSE Exc(kind, url, at)

\* the exception _load_repomd raises for a failed fetch: a 404 becomes
\* NotRepoException, anything else is raised as it came
LoadRepomdExc(kind, url, at) ==
    IF kind = "HTTP404" THEN Exc("NotRepoException", url, at)
    ELSE Exc(kind, url, at)

-----------------------------------------------------------------------------
(* load *)

\* load's locals before its first statement
LoadLocals ==
    /\ base = Urlparse("")
    /\ path = PurePosixPath("")
    /\ repomd_xml = NoneXml
    /\ handling = NoException
    /\ swallowed = NoException
    /\ mirrors = <<>>
    /\ idx = 0
    /\ primary_url = ""
    /\ exc = NoException
    /\ returned = NoRepo
    /\ fetches = <<>>
    /\ ml_result = <<>>
    /\ served = 0

LoadInit == pc = "start" /\ baseurl \in BaseUrls /\ LoadLocals

\* no load() call is under way
LoadIdle == pc = "idle" /\ baseurl = "" /\ LoadLocals

\* a variant of DirectCont that looks for mirrors after a direct success too
DirectContAlwaysMirrors(ok, e) ==
    IF ok \/ e.type = "NotRepoException" THEN "mirrorlist" ELSE "raised"

\* where load goes after the direct _load_repomd: on, into the
\* `except NotRepoException` block, or out with the exception
DirectCont(ok, e) ==
    IF ok THEN "primary"
    ELSE IF e.type = "NotRepoException" THEN "mirrorlist"
    ELSE "raised"

\* lines 66-71: parse the base URL, try the index there
LoadDirect ==
    /\ pc = "start"
    /\ \E out \in IndexOutcomes :
         LET bp   == ParseBaseurl(baseurl)
             url  == RepomdUrl(bp.base, bp.path)
             at   == Len(fetches) + 1
             ok   == out.kind = "ok"
             e    == IF ok THEN NoException ELSE LoadRepomdExc(out.kind, url, at)
             next == DirectCont(ok, e)
         IN  /\ base' = bp.base
             /\ path' = bp.path
             /\ fetches' = Append(fetches, Fetch("index", url, out.kind, 0))
             /\ repomd_xml' = IF ok THEN [none |-> FALSE, data |-> out.doc] ELSE NoneXml
             /\ pc' = next
             /\ handling' = IF next = "mirrorlist" THEN e ELSE NoException
             /\ exc' = IF next = "raised" THEN e ELSE NoException
    /\ UNCHANGED <<baseurl, swallowed, mirrors, idx, primary_url, returned, ml_result, served,
                   repoVars, pkgVars>>

\* line 72 and lines 25-27: _load_mirrorlist fetches the list at baseurl; any
\* failure is caught and gives no mirrors
LoadMirrorlist ==
    /\ pc = "mirrorlist"
    /\ \E out \in MirrorlistOutcomes :
         LET at == Len(fetches) + 1
         IN  /\ fetches' = Append(fetches, Fetch("mirrorlist", baseurl, out.kind, 0))
             /\ ml_result' = out.lines
             /\ IF out.kind = "ok"
                THEN pc' = "mirrorloop" /\ idx' = idx /\ swallowed' = swallowed
                ELSE pc' = "mirrors" /\ idx' = 1 /\ swallowed' = Exc(out.kind, baseurl, at)
    /\ mirrors' = <<>>
    /\ UNCHANGED <<baseurl, base, path, repomd_xml, handling, primary_url, exc, returned, served,
                   repoVars, pkgVars>>

\* lines 29-37: the loop over the lines, and the return to load
MirrorlistLoop ==
    /\ pc = "mirrorloop"
    /\ mirrors' = MirrorLoop(ml_result, <<>>)
    /\ swallowed' = IF \E i \in 1..Len(ml_result) : ~Urlparse(ml_result[i]).ok
                    THEN Exc("ValueError", baseurl, Len(fetches)) ELSE swallowed
    /\ ml_result' = <<>>
    /\ idx' = 1
    /\ pc' = "mirrors"
    /\ UNCHANGED <<baseurl, base, path, repomd_xml, handling, primary_url, exc, returned,
                   fetches, served,
                   repoVars, pkgVars>>

\* a variant of MirrorBasePath that takes the mirror's base and keeps the path
MirrorBasePathKeepsPath(mirror, b, p) == [base |-> ParseBaseurl(mirror).base, path |-> p]

\* line 76: base, path = _parse_baseurl(mirror)
MirrorBasePath(mirror, b, p) == ParseBaseurl(mirror)

\* a variant of AfterMirror without the `else: break`
AfterMirrorNoBreak(ok) == "continue"

\* lines 78-81: `continue` after a failure, `break` after a success
AfterMirror(ok) == IF ok THEN "break" ELSE "continue"

\* lines 74-81: one round of `for mirror in mirrors`
TryMirror ==
    /\ pc = "mirrors"
    /\ idx <= Len(mirrors)
    /\ \E out \in IndexOutcomes :
         LET bp  == MirrorBasePath(mirrors[idx], base, path)
             url == RepomdUrl(bp.base, bp.path)
             at  == Len(fetches) + 1
             ok  == out.kind = "ok"
         IN  /\ base' = bp.base
             /\ path' = bp.path
             /\ fetches' = Append(fetches, Fetch("index", url, out.kind, idx))
             /\ repomd_xml' = IF ok THEN [none |-> FALSE, data |-> out.doc] ELSE repomd_xml
             /\ served' = IF ok THEN idx ELSE served
             /\ swallowed' = IF ok THEN swallowed ELSE LoadRepomdExc(out.kind, url, at)
             /\ IF AfterMirror(ok) = "break"
                THEN pc' = "afterloop" /\ idx' = idx
                ELSE pc' = "mirrors" /\ idx' = idx + 1
    /\ UNCHANGED <<baseurl, handling, mirrors, primary_url, exc, returned, ml_result,
                   repoVars, pkgVars>>

\* a variant of Reraise that raises the exception caught last
ReraiseLast(handled, dropped) == IF dropped.type # "None" THEN dropped ELSE handled

\* line 84: a bare `raise` in the except block raises the exception the block
\* handles, whatever was caught and dropped inside the block
Reraise(handled, dropped) == handled

\* lines 83-84, reached when the loop ran out or was left by `break`
AfterLoop ==
    /\ \/ pc = "mirrors" /\ idx > Len(mirrors)
       \/ pc = "afterloop"
    /\ IF repomd_xml.none
       THEN pc' = "raised" /\ exc' = Reraise(handling, swallowed)
       ELSE pc' = "primary" /\ exc' = exc
    /\ UNCHANGED <<baseurl, base, path, repomd_xml, handling, swallowed, mirrors, idx,
                   primary_url, returned, fetches, ml_result, served,
                   repoVars, pkgVars>>

\* a variant of PrimaryLocation without the [@type="primary"] test
RECURSIVE PrimaryLocationAnyType(_)
PrimaryLocationAnyType(data) ==
    IF data = <<>> THEN NOLOC
    ELSE IF Head(data).loc # NOLOC THEN Head(data).loc
    ELSE PrimaryLocationAnyType(Tail(data))

\* line 87: repomd_xml.find('repo:data[@type="primary"]/repo:location'): the
\* first `location` child of a `data` element of type primary, else None
RECURSIVE PrimaryLocation(_)
PrimaryLocation(data) ==
    IF data = <<>> THEN NOLOC
    ELSE IF Head(data).type = "primary" /\ Head(data).loc # NOLOC THEN Head(data).loc
    ELSE PrimaryLocation(Tail(data))

\* lines 87-89: locate the primary catalog
LocatePrimary ==
    /\ pc = "primary"
    /\ LET loc == PrimaryLocation(repomd_xml.data)
           at  == Len(fetches)
       IN  IF loc = NOLOC
           THEN pc' = "raised" /\ exc' = Exc("AttributeError", "", at) /\ primary_url' = primary_url
           ELSE IF loc = NOHREF
           THEN pc' = "raised" /\ exc' = Exc("TypeError", "", at) /\ primary_url' = primary_url
           ELSE /\ pc' = "catalog"
                /\ exc' = exc
                /\ primary_url' = ReplacePathGeturl(base, PathJoin(path, PurePosixPath(loc)))
    /\ UNCHANGED <<baseurl, base, path, repomd_xml, handling, swallowed, mirrors, idx,
                   returned, fetches, ml_result, served,
                   repoVars, pkgVars>>

\* lines 92-97: fetch, gunzip and parse the catalog, return the Repo
FetchPrimary ==
    /\ pc = "catalog"
    /\ \E kind \in CatalogOutcomes :
         LET at == Len(fetches) + 1
         IN  /\ fetches' = Append(fetches, Fetch("primary", primary_url, kind, served))
             /\ IF kind = "ok"
                THEN pc' = "done" /\ returned' = [baseurl |-> baseurl, metadata |-> "catalog"]
                                  /\ exc' = exc
                ELSE pc' = "raised" /\ returned' = returned /\ exc' = Exc(kind, primary_url, at)
    /\ UNCHANGED <<baseurl, base, path, repomd_xml, handling, swallowed, mirrors, idx,
                   primary_url, ml_result, served,
                   repoVars, pkgVars>>

-----------------------------------------------------------------------------
(* Properties of load *)

\* the index fetches made on mirror candidates, in the order they were made
MirrorFetches == SelectSeq(fetches, LAMBDA f : f.what = "index" /\ f.cand > 0)

OriginalRepomdUrl ==
    LET bp == ParseBaseurl(baseurl) IN RepomdUrl(bp.base, bp.path)

DirectKind == IF fetches = <<>> THEN "none" ELSE fetches[1].kind

\* C1: when the direct fetch of <baseurl>/repodata/repomd.xml succeeds, load
\* fetches no mirror list and no mirror's index: the fetches of the run are
\* the direct index and then, at most, the primary catalog, and a run that
\* returns a Repo made exactly those two.
C1_DirectSuccessNoMirrorDiscovery ==
    DirectKind = "ok" =>
        /\ fetches[1] = Fetch("index", OriginalRepomdUrl, "ok", 0)
        /\ \A i \in 1..Len(fetches) : fetches[i].what # "mirrorlist" /\ fetches[i].cand = 0
        /\ Len(fetches) <= 2
        /\ Len(fetches) = 2 => fetches[2].what = "primary"
        /\ pc = "done" => Len(fetches) = 2

C1_Witness ==
    /\ pc = "done"
    /\ DirectKind = "ok"
    /\ Len(fetches) = 2
    /\ fetches[2].what = "primary"

\* C2: after a 404 of the direct index the mirror candidates are tried one at
\* a time in mirror-list order: the k-th mirror fetch is the index of the k-th
\* candidate, every mirror fetch but the last one made has failed (with any
\* failure), so nothing is fetched from a candidate after one succeeded.
C2_MirrorsInOrderFirstSuccessWins ==
    /\ MirrorFetches # <<>> => DirectKind = "HTTP404"
    /\ \A k \in 1..Len(MirrorFetches) :
         /\ k <= Len(mirrors)
         /\ MirrorFetches[k].cand = k
         /\ MirrorFetches[k].url =
                RepomdUrl(ParseBaseurl(mirrors[k]).base, ParseBaseurl(mirrors[k]).path)
         /\ k < Len(MirrorFetches) => MirrorFetches[k].kind # "ok"
    /\ pc \in {"done", "raised"} /\ Len(MirrorFetches) < Len(mirrors)
         => MirrorFetches # <<>> /\ MirrorFetches[Len(MirrorFetches)].kind = "ok"

C2_Witness ==
    /\ pc = "done"
    /\ Len(mirrors) = 3
    /\ Len(MirrorFetches) = 2
    /\ MirrorFetches[1].kind = "HTTP500"
    /\ MirrorFetches[2].kind = "ok"

\* C3: when the direct index fetch returned 404 and no candidate gave an index
\* (no candidates, a failed mirror-list fetch, every candidate failed), load
\* raises the NotRepoException of the direct fetch, the one that names the
\* original base URL's repomd.xml, not an exception of a mirror attempt or of
\* the mirror-list fetch.
C3_OriginalFailureReraised ==
    ( /\ pc \in {"done", "raised"}
      /\ DirectKind = "HTTP404"
      /\ \A i \in 1..Len(fetches) : fetches[i].what = "index" => fetches[i].kind # "ok" )
    => /\ pc = "raised"
       /\ exc = Exc("NotRepoException", OriginalRepomdUrl, 1)

C3_Witness ==
    /\ pc = "raised"
    /\ DirectKind = "HTTP404"
    /\ Len(MirrorFetches) = 2
    /\ MirrorFetches[1].kind = "URLError"
    /\ MirrorFetches[2].kind = "HTTP404"
    /\ swallowed.type = "NotRepoException"

\* the URL (the original base URL, or a mirror) of candidate c
SourceUrl(c) == IF c = 0 THEN baseurl ELSE mirrors[c]

\* the catalog URL that belongs to the index of candidate c
CatalogUrlOf(c, doc) ==
    LET bp == ParseBaseurl(SourceUrl(c))
    IN  ReplacePathGeturl(bp.base, PathJoin(bp.path, PurePosixPath(PrimaryLocation(doc))))

\* C4: every catalog fetch goes to the URL built from the base and the path
\* of the one source whose index fetch succeeded, joined with the primary
\* href of that index, whatever failed candidates were tried before it.
C4_CatalogFromEffectiveSource ==
    \A i \in 1..Len(fetches) :
        fetches[i].what = "primary" =>
            /\ i > 1
            /\ fetches[i - 1].what = "index"
            /\ fetches[i - 1].kind = "ok"
            /\ \A j \in 1..(i - 2) : fetches[j].what = "index" => fetches[j].kind # "ok"
            /\ fetches[i - 1].url =
                   RepomdUrl(ParseBaseurl(SourceUrl(fetches[i - 1].cand)).base,
                             ParseBaseurl(SourceUrl(fetches[i - 1].cand)).path)
            /\ fetches[i].url = CatalogUrlOf(fetches[i - 1].cand, repomd_xml.data)

C4_Witness ==
    /\ pc = "done"
    /\ Len(fetches) = 5
    /\ fetches[3].kind = "HTTP404"
    /\ fetches[3].url = "http://a/r/repodata/repomd.xml"
    /\ fetches[4].kind = "ok"
    /\ fetches[5].url = "https://b/repodata/p.xml.gz"

\* C5: when the direct index fetch fails with anything but HTTP 404, load
\* raises that same error and fetches nothing more; the mirror list is
\* fetched only after a 404 of the direct index.
C5_OtherErrorsPropagate ==
    /\ DirectKind \in IndexFailures \ {"HTTP404"} =>
         /\ Len(fetches) = 1
         /\ pc = "raised"
         /\ exc = Exc(DirectKind, OriginalRepomdUrl, 1)
         /\ returned = NoRepo
    /\ \A i \in 1..Len(fetches) :
         fetches[i].what = "mirrorlist" \/ fetches[i].cand > 0 => DirectKind = "HTTP404"

C5_Witness ==
    /\ pc = "raised"
    /\ DirectKind = "HTTP500"
    /\ exc.type = "HTTP500"

HasPrimaryEntry(doc) == \E i \in 1..Len(doc) : doc[i].type = "primary"

\* C6: when the index load obtained (directly or from a mirror) has no data
\* entry of type primary, load ends with an exception that is not
\* NotRepoException and returns no Repo, and nothing is fetched after that
\* index: no mirror list, no further mirror, no catalog.
C6_NoPrimaryEntryIsFatal ==
    ( ~repomd_xml.none /\ ~HasPrimaryEntry(repomd_xml.data) ) =>
        /\ fetches[Len(fetches)].what = "index"
        /\ fetches[Len(fetches)].kind = "ok"
        /\ \A i \in 1..(Len(fetches) - 1) :
             fetches[i].what = "index" => fetches[i].kind # "ok"
        /\ returned = NoRepo
        /\ pc \in {"afterloop", "primary", "raised"}
        /\ pc = "raised" => exc.type = "AttributeError"

C6_Witness ==
    /\ pc = "raised"
    /\ exc.type = "AttributeError"
    /\ served = 2
    /\ repomd_xml.data # <<>>
    /\ ~HasPrimaryEntry(repomd_xml.data)

\* what urlparse finds in a line, when it finds anything
LineIsCandidate(line) ==
    LET u == Urlparse(line) IN u.ok /\ u.scheme \in {"http", "https"} /\ u.netloc # ""

RECURSIVE CandidatesOf(_)
CandidatesOf(lines) ==
    IF lines = <<>> THEN <<>>
    ELSE IF LineIsCandidate(Head(lines))
         THEN <<Geturl(Urlparse(Head(lines)))>> \o CandidatesOf(Tail(lines))
         ELSE CandidatesOf(Tail(lines))

\* C10: for every mirror-list body that was fetched, the candidates are the
\* lines with scheme http or https and a host, in their order (each as
\* geturl() writes it); a malformed line removes only itself.
C10_MalformedLineRemovesOnlyItself ==
    [][pc = "mirrorloop" => mirrors' = CandidatesOf(ml_result)]_vars

-----------------------------------------------------------------------------
(* Package elements of the catalog *)

\* a Python value that is None or a str
None == [none |-> TRUE, val |-> ""]
Some(text) == [none |-> FALSE, val |-> text]

\* an attribute value that is looked into (int() of the epoch): its characters
NoChars == [none |-> TRUE, chars |-> <<>>]
Chars(cs) == [none |-> FALSE, chars |-> cs]

RECURSIVE Str(_)
Str(cs) == IF cs = <<>> THEN "" ELSE Head(cs) \o Str(Tail(cs))

QUOTE == "\""

\* a <package> element: its common:name children (one is the rule, the text
\* of each as characters), the text of its other children (None: no such
\* child), its common:format, common:version and common:location children
NoFormat == [none |-> TRUE, license |-> None, vendor |-> None, sourcerpm |-> None]
NoVersion == [none |-> TRUE, epoch |-> NoChars, ver |-> None, rel |-> None]
NoLocation == [none |-> TRUE, href |-> None]

FullElement ==
    [ names       |-> << <<"f", "o", "o">> >>,
      arch        |-> Some("x86_64"),
      summary     |-> Some("a summary"),
      description |-> Some(""),
      packager    |-> Some("a packager"),
      url         |-> Some("http://foo"),
      format      |-> [none |-> FALSE, license |-> Some("MIT"), vendor |-> Some("a vendor"),
                       sourcerpm |-> Some("foo-1.2-3.src.rpm")],
      version     |-> [none |-> FALSE, epoch |-> Chars(<<"0">>), ver |-> Some("1.2"),
                       rel |-> Some("3")],
      location    |-> [none |-> FALSE, href |-> Some("Packages/foo-1.2-3.x86_64.rpm")] ]

EmptyElement ==
    [ names |-> <<>>, arch |-> None, summary |-> None, description |-> None,
      packager |-> None, url |-> None, format |-> NoFormat, version |-> NoVersion,
      location |-> NoLocation ]

Nodes == {"name", "arch", "summary", "description", "packager", "url", "format",
          "license", "vendor", "sourcerpm", "version", "location", "href"}

\* FullElement without one node
Without(node) ==
    CASE node = "name"        -> [FullElement EXCEPT !.names = <<>>]
      [] node = "arch"        -> [FullElement EXCEPT !.arch = None]
      [] node = "summary"     -> [FullElement EXCEPT !.summary = None]
      [] node = "description" -> [FullElement EXCEPT !.description = None]
      [] node = "packager"    -> [FullElement EXCEPT !.packager = None]
      [] node = "url"         -> [FullElement EXCEPT !.url = None]
      [] node = "format"      -> [FullElement EXCEPT !.format = NoFormat]
      [] node = "license"     -> [FullElement EXCEPT !.format.license = None]
      [] node = "vendor"      -> [FullElement EXCEPT !.format.vendor = None]
      [] node = "sourcerpm"   -> [FullElement EXCEPT !.format.sourcerpm = None]
      [] node = "version"     -> [FullElement EXCEPT !.version = NoVersion]
      [] node = "location"    -> [FullElement EXCEPT !.location = NoLocation]
      [] node = "href"        -> [FullElement EXCEPT !.location.href = None]

\* epoch attributes: none, and texts int() takes or refuses
Epochs == {NoChars, Chars(<<>>), Chars(<<"0">>), Chars(<<"0", "0">>), Chars(<<"2">>),
           Chars(<<"1", "0">>), Chars(<<"-", "1">>), Chars(<<"x">>), Chars(<<"2", "x">>)}

WithVersion(e, v) == [FullElement EXCEPT !.version.epoch = e, !.version.ver = v]

Elements ==
    {FullElement, EmptyElement}
        \cup {Without(n) : n \in Nodes}
        \cup {WithVersion(e, v) : e \in Epochs, v \in {Some("1.2"), None}}

\* the element of a package with these common:name children
Named(names) == [FullElement EXCEPT !.names = names]

-----------------------------------------------------------------------------
(* Package *)

\* what reading a property gives: a value, or the exception raised
Value(v) == [exc |-> "", value |-> v]
Raised(type) == [exc |-> type, value |-> None]

\* f'{x}' of a value that is None or a str
Format(v) == IF v.none THEN "None" ELSE v.val

TextFields == {"name", "arch", "summary", "description", "packager", "url",
               "license", "vendor", "sourcerpm"}

\* lines 144-178: self._element.findtext(path): the text of the first element
\* at the path, None when there is none
Findtext(e, field) ==
    CASE field = "name"        -> IF e.names = <<>> THEN None ELSE Some(Str(e.names[1]))
      [] field = "arch"        -> e.arch
      [] field = "summary"     -> e.summary
      [] field = "description" -> e.description
      [] field = "packager"    -> e.packager
      [] field = "url"         -> e.url
      [] field = "license"     -> IF e.format.none THEN None ELSE e.format.license
      [] field = "vendor"      -> IF e.format.none THEN None ELSE e.format.vendor
      [] field = "sourcerpm"   -> IF e.format.none THEN None ELSE e.format.sourcerpm

PackageText(e, field) == Value(Findtext(e, field))

\* lines 185-187: find('common:location').get('href'); find gives None when
\* there is no such child, and None has no get
PackageLocation(e) ==
    IF e.location.none THEN Raised("AttributeError") ELSE Value(e.location.href)

\* lines 194-203: self._version_info.get(attribute)
PackageVersionAttr(e, attribute) ==
    IF e.version.none THEN Raised("AttributeError")
    ELSE CASE attribute = "epoch"   -> Value(IF e.version.epoch.none THEN None
                                             ELSE Some(Str(e.version.epoch.chars)))
           [] attribute = "version" -> Value(e.version.ver)
           [] attribute = "release" -> Value(e.version.rel)

\* lines 205-210
PackageVr(e) ==
    IF e.version.none THEN Raised("AttributeError")
    ELSE Value(Some(Format(e.version.ver) \o "-" \o Format(e.version.rel)))

\* lines 212-214
PackageNvr(e) ==
    LET vr == PackageVr(e)
    IN  IF vr.exc # "" THEN vr
        ELSE Value(Some(Format(Findtext(e, "name")) \o "-" \o vr.value.val))

Digits == {"0", "1", "2"}
DigitValue(c) == CASE c = "0" -> 0 [] c = "1" -> 1 [] c = "2" -> 2

RECURSIVE DigitsValue(_)
DigitsValue(cs) ==
    IF cs = <<>> THEN 0 ELSE 10 * DigitsValue(SubSeq(cs, 1, Len(cs) - 1)) + DigitValue(cs[Len(cs)])

\* int(e): None is a TypeError; a str must be an optional sign and then one
\* digit or more, else it is a ValueError
PyInt(e) ==
    IF e.none THEN [exc |-> "TypeError", n |-> 0]
    ELSE LET signed == e.chars # <<>> /\ e.chars[1] \in {"+", "-"}
             digits == IF signed THEN Tail(e.chars) ELSE e.chars
         IN  IF digits = <<>> \/ \E i \in 1..Len(digits) : digits[i] \notin Digits
             THEN [exc |-> "ValueError", n |-> 0]
             ELSE [exc |-> "", n |-> IF signed /\ e.chars[1] = "-"
                                     THEN 0 - DigitsValue(digits) ELSE DigitsValue(digits)]

\* lines 216-225
PackageEvr(e) ==
    IF e.version.none THEN Raised("AttributeError")
    ELSE LET i  == PyInt(e.version.epoch)
             vr == Format(e.version.ver) \o "-" \o Format(e.version.rel)
         IN  IF i.exc # "" THEN Raised(i.exc)
             ELSE IF i.n # 0 THEN Value(Some(Str(e.version.epoch.chars) \o ":" \o vr))
             ELSE Value(Some(vr))

\* lines 227-229
PackageNevr(e) ==
    LET evr == PackageEvr(e)
    IN  IF evr.exc # "" THEN evr
        ELSE Value(Some(Format(Findtext(e, "name")) \o "-" \o evr.value.val))

\* lines 231-233
PackageNevra(e) ==
    LET nevr == PackageNevr(e)
    IN  IF nevr.exc # "" THEN nevr
        ELSE Value(Some(nevr.value.val \o "." \o Format(Findtext(e, "arch"))))

NoRead == [field |-> "", exc |-> "", value |-> None]
Read(field, r) == [field |-> field, exc |-> r.exc, value |-> r.value]

PackageInit == element \in Elements /\ got = NoRead
PackageIdle == element = EmptyElement /\ got = NoRead

GetText ==
    /\ \E field \in TextFields : got' = Read(field, PackageText(element, field))
    /\ UNCHANGED <<element, loadVars, repoVars>>

GetLocation ==
    /\ got' = Read("location", PackageLocation(element))
    /\ UNCHANGED <<element, loadVars, repoVars>>

GetVersionAttr ==
    /\ \E attribute \in {"epoch", "version", "release"} :
         got' = Read(attribute, PackageVersionAttr(element, attribute))
    /\ UNCHANGED <<element, loadVars, repoVars>>

GetVr ==
    /\ got' = Read("vr", PackageVr(element))
    /\ UNCHANGED <<element, loadVars, repoVars>>

GetNvr ==
    /\ got' = Read("nvr", PackageNvr(element))
    /\ UNCHANGED <<element, loadVars, repoVars>>

GetEvr ==
    /\ got' = Read("evr", PackageEvr(element))
    /\ UNCHANGED <<element, loadVars, repoVars>>

GetNevr ==
    /\ got' = Read("nevr", PackageNevr(element))
    /\ UNCHANGED <<element, loadVars, repoVars>>

GetNevra ==
    /\ got' = Read("nevra", PackageNevra(element))
    /\ UNCHANGED <<element, loadVars, repoVars>>

-----------------------------------------------------------------------------
(* Repo *)

\* the names asked for, as characters: with and without a double quote
QueryNames == { <<"f", "o", "o">>, <<"b">>, <<"f", "o", "o", QUOTE>>, <<QUOTE>>,
                <<"b", QUOTE, "f">>, <<>>, <<"z">> }

\* the package elements of the catalogs: by their common:name children
CatalogElements ==
    { Named(<<>>), Named(<< <<"f", "o", "o">> >>), Named(<< <<"b">> >>),
      Named(<< <<"f", "o", "o", QUOTE>> >>), Named(<< <<"b">>, <<"f", "o", "o">> >>) }

Catalogs == SeqsUpTo(CatalogElements, MaxPackages)

\* the first position of c in cs, Len(cs) + 1 when there is none
RECURSIVE IndexOf(_, _)
IndexOf(cs, c) ==
    IF cs = <<>> \/ Head(cs) = c THEN 1 ELSE 1 + IndexOf(Tail(cs), c)

\* lines 123 and 132: f'common:package[common:name="{name}"]' as ElementTree
\* reads it. The string literal after = ends at the first double quote that
\* follows its opening one; the predicate is valid when "]" comes next, and
\* anything between the two is a SyntaxError ("invalid predicate").
NamePredicate(name) ==
    LET text == name \o <<QUOTE>>
        k    == IndexOf(text, QUOTE)
    IN  [valid |-> k = Len(text), literal |-> SubSeq(text, 1, k - 1)]

\* Element.findall of that path: the positions of the package elements that
\* have a common:name child whose text is the literal
MatchingPackages(md, literal) ==
    LET hit(i) == \E j \in 1..Len(md[i].names) : md[i].names[j] = literal
        RECURSIVE From(_)
        From(i) == IF i > Len(md) THEN <<>>
                   ELSE IF hit(i) THEN <<i>> \o From(i + 1) ELSE From(i + 1)
    IN  From(1)

NoCall == [op |-> "", name |-> <<>>, exc |-> "", one |-> 0, all |-> <<>>]

\* lines 122-127: find gives Package(results[-1]), None (0 here) without results
RepoFindResult(md, name) ==
    LET p == NamePredicate(name)
        results == MatchingPackages(md, p.literal)
    IN  IF ~p.valid THEN [op |-> "find", name |-> name, exc |-> "SyntaxError", one |-> 0, all |-> <<>>]
        ELSE [op |-> "find", name |-> name, exc |-> "",
              one |-> IF results # <<>> THEN results[Len(results)] ELSE 0, all |-> <<>>]

\* lines 129-133: findall gives a Package for every result, in order
RepoFindallResult(md, name) ==
    LET p == NamePredicate(name)
    IN  IF ~p.valid THEN [op |-> "findall", name |-> name, exc |-> "SyntaxError", one |-> 0, all |-> <<>>]
        ELSE [op |-> "findall", name |-> name, exc |-> "", one |-> 0,
              all |-> MatchingPackages(md, p.literal)]

RepoInit == metadata \in Catalogs /\ found = NoCall
RepoIdle == metadata = <<>> /\ found = NoCall

RepoFind ==
    /\ \E name \in QueryNames : found' = RepoFindResult(metadata, name)
    /\ UNCHANGED <<metadata, loadVars, pkgVars>>

RepoFindall ==
    /\ \E name \in QueryNames : found' = RepoFindallResult(metadata, name)
    /\ UNCHANGED <<metadata, loadVars, pkgVars>>

-----------------------------------------------------------------------------
(* Properties of Repo and Package *)

\* the packages of the catalog whose name (Package.name) is the name, in order
PackagesNamed(md, name) ==
    LET RECURSIVE From(_)
        From(i) == IF i > Len(md) THEN <<>>
                   ELSE IF Findtext(md[i], "name") = Some(Str(name))
                        THEN <<i>> \o From(i + 1) ELSE From(i + 1)
    IN  From(1)

\* C7: for every catalog and every name, findall(name) returns exactly the
\* packages whose name is the name, in document order, and find(name) returns
\* the last of them, or None when there is none.
C7_FindLastFindallAll ==
    /\ found.op = "findall" =>
         found.exc = "" /\ found.all = PackagesNamed(metadata, found.name)
    /\ found.op = "find" =>
         /\ found.exc = ""
         /\ LET all == PackagesNamed(metadata, found.name)
            IN  found.one = IF all = <<>> THEN 0 ELSE all[Len(all)]

\* the epoch is absent, empty, or a number that is zero
EpochFalsyOrZero(e) ==
    \/ e.none
    \/ e.chars = <<>>
    \/ PyInt(e).exc = "" /\ PyInt(e).n = 0

\* C8: evr is "{version}-{release}" when the epoch is absent, empty or
\* numerically zero and "{epoch}:{version}-{release}" otherwise, nevra is
\* "{name}-{evr}.{arch}", and reading them raises nothing.
C8_EvrOmitsFalsyEpoch ==
    ( /\ got.field \in {"evr", "nevra"}
      /\ ~element.version.none
      /\ ~element.version.ver.none
      /\ ~element.version.rel.none
      /\ element.names # <<>>
      /\ ~element.arch.none )
    => LET v   == element.version
           evr == IF EpochFalsyOrZero(v.epoch) THEN v.ver.val \o "-" \o v.rel.val
                  ELSE Str(v.epoch.chars) \o ":" \o v.ver.val \o "-" \o v.rel.val
       IN  /\ got.exc = ""
           /\ got.field = "evr" => got.value = Some(evr)
           /\ got.field = "nevra" =>
                got.value = Some(Str(element.names[1]) \o "-" \o evr \o "." \o element.arch.val)

SimpleFields == {"summary", "description", "packager", "url", "license", "vendor",
                 "sourcerpm", "location"}

\* the node a simple field is read from is not in the element
NodeMissing(e, field) ==
    CASE field = "summary"     -> e.summary.none
      [] field = "description" -> e.description.none
      [] field = "packager"    -> e.packager.none
      [] field = "url"         -> e.url.none
      [] field = "license"     -> e.format.none \/ e.format.license.none
      [] field = "vendor"      -> e.format.none \/ e.format.vendor.none
      [] field = "sourcerpm"   -> e.format.none \/ e.format.sourcerpm.none
      [] field = "location"    -> e.location.none \/ e.location.href.none

\* C9: reading a simple field whose node is missing from the record gives
\* None and raises nothing.
C9_MissingNodeGivesNone ==
    ( got.field \in SimpleFields /\ NodeMissing(element, got.field) )
    => got.exc = "" /\ got.value = None

-----------------------------------------------------------------------------
(* Specifications *)

\* one load() call
Init == LoadInit /\ RepoIdle /\ PackageIdle

Next ==
    \/ LoadDirect
    \/ LoadMirrorlist
    \/ MirrorlistLoop
    \/ TryMirror
    \/ AfterLoop
    \/ LocatePrimary
    \/ FetchPrimary

Spec == Init /\ [][Next]_vars

\* find and findall on a Repo
InitRepo == LoadIdle /\ RepoInit /\ PackageIdle

NextRepo == RepoFind \/ RepoFindall

SpecRepo == InitRepo /\ [][NextRepo]_vars

\* the properties of a Package
InitPackage == LoadIdle /\ RepoIdle /\ PackageInit

NextPackage ==
    \/ GetText
    \/ GetLocation
    \/ GetVersionAttr
    \/ GetVr
    \/ GetNvr
    \/ GetEvr
    \/ GetNevr
    \/ GetNevra

SpecPackage == InitPackage /\ [][NextPackage]_vars

====
